---------------------------- MODULE Spec2Model ----------------------------
(***************************************************************************)
(* ComplyScan backend: the compliance checker (ten keyword rules over an   *)
(* axe-core scan), the /analyze handler that scores the verdicts, and the  *)
(* LongCat recommendation service the handler calls for failed verdicts.   *)
(*                                                                         *)
(* Python strings are TLA+ strings; TLC evaluates Len, SubSeq and \o on    *)
(* them, so lower() and the `in` operator are computed character by        *)
(* character.  A JSON value of a Finding is tagged with its Python type,   *)
(* because Dict[str, Any] admits values that are not strings.              *)
(***************************************************************************)
EXTENDS Integers, Sequences, FiniteSets, TLC

VARIABLES
    api_key,             \* AIRecommendationService.api_key, read from the environment
    pc,                  \* per request: "idle", "awaiting" (in client.post), "done"
    received,            \* per request: the AxeCoreResult the handler was passed
    compliance_results,  \* per request: the list check_all returned
    calls,               \* per request: invocations of get_recommendations
    posts,               \* per request: outbound client.post requests
    http,                \* per request: what client.post ended in
    returned,            \* per request: how get_recommendations ended
    response,            \* per request: the ComplianceResponse or the HTTPException
    ev_pc,               \* check_all applied to a generated scan record: the step,
    ev_scan,             \*   the record,
    ev_result,           \*   what check_all returned for it,
    ev_before            \*   and the record and the result before the record changed

(***************************************************************************)
(* Python values                                                           *)
(***************************************************************************)
Str(s) == [type |-> "str", val |-> s]

None == [type |-> "NoneType"]

IsStr(v) == v.type = "str"

\* dict.get(key): the default left out
GetOrNone(d, key, default) == IF key \in DOMAIN d THEN d[key] ELSE None

\* dict.get(key, default)
Get(d, key, default) == IF key \in DOMAIN d THEN d[key] ELSE default

\* str(v) as an f-string placeholder renders it
Format(v) == IF IsStr(v) THEN v.val ELSE "None"

UpperCase == "ABCDEFGHIJKLMNOPQRSTUVWXYZ"

LowerCase == "abcdefghijklmnopqrstuvwxyz"

\* position of the one-character string c in alphabet, 0 when absent
IndexIn(c, alphabet) ==
    IF \E i \in 1..Len(alphabet) : SubSeq(alphabet, i, i) = c
    THEN CHOOSE i \in 1..Len(alphabet) : SubSeq(alphabet, i, i) = c
    ELSE 0

\* the lower-case letter of each upper-case letter, and the reverse
ToLower ==
    [c \in {SubSeq(UpperCase, i, i) : i \in 1..Len(UpperCase)} |->
        SubSeq(LowerCase, IndexIn(c, UpperCase), IndexIn(c, UpperCase))]

ToUpper ==
    [c \in {SubSeq(LowerCase, i, i) : i \in 1..Len(LowerCase)} |->
        SubSeq(UpperCase, IndexIn(c, LowerCase), IndexIn(c, LowerCase))]

LowerChar(c) == IF c \in DOMAIN ToLower THEN ToLower[c] ELSE c

UpperChar(c) == IF c \in DOMAIN ToUpper THEN ToUpper[c] ELSE c

RECURSIVE LowerFrom(_, _)
LowerFrom(s, i) ==
    IF i > Len(s) THEN "" ELSE LowerChar(SubSeq(s, i, i)) \o LowerFrom(s, i + 1)

\* str.lower()
lower(s) == LowerFrom(s, 1)

RECURSIVE UpperFrom(_, _)
UpperFrom(s, i) ==
    IF i > Len(s) THEN "" ELSE UpperChar(SubSeq(s, i, i)) \o UpperFrom(s, i + 1)

\* str.upper()
upper(s) == UpperFrom(s, 1)

\* keyword in text
Contains(text, keyword) ==
    \E i \in 1..(Len(text) - Len(keyword) + 1) :
        SubSeq(text, i, i + Len(keyword) - 1) = keyword

\* any(keyword in text for keyword in keywords)
AnyIn(keywords, text) == \E k \in keywords : Contains(text, k)

(***************************************************************************)
(* ComplianceChecker.COMPLIANCE_CHECKS, in dict insertion order            *)
(***************************************************************************)
COMPLIANCE_CHECKS ==
    << [check_id |-> "meaningful_sequence", name |-> "Meaningful Sequence",
        description |-> "Ensure reading order makes logical sense for screen readers"],
       [check_id |-> "sensory_characteristics", name |-> "Sensory Characteristics",
        description |-> "Do not rely solely on colour, shape, or sound to convey meaning"],
       [check_id |-> "use_of_colour", name |-> "Use of Colour",
        description |-> "Information should not depend only on colour differences"],
       [check_id |-> "keyboard_accessible", name |-> "Keyboard Accessible",
        description |-> "All functionality should be usable via keyboard only"],
       [check_id |-> "no_keyboard_trap", name |-> "No Keyboard Trap",
        description |-> "Ensure users can navigate in and out of components using the keyboard"],
       [check_id |-> "pointer_cancellation", name |-> "Pointer Cancellation",
        description |-> "Click or drag actions should be cancellable or undoable"],
       [check_id |-> "label_in_name", name |-> "Label in Name",
        description |-> "Visible label should match the accessible name"],
       [check_id |-> "timing_adjustable", name |-> "Timing Adjustable",
        description |-> "Allow users to extend or disable time limits where applicable"],
       [check_id |-> "seizures", name |-> "Seizures",
        description |-> "Avoid flashing content exceeding 3 flashes per second"],
       [check_id |-> "bypass_blocks", name |-> "Bypass Blocks",
        description |-> "Provide skip links or navigation mechanisms to bypass repetitive content"] >>

(***************************************************************************)
(* The loop bodies of the evaluators.  A loop body ends in one of three    *)
(* ways: it appends evidence ("hit"), it appends nothing ("miss"), or a    *)
(* .lower() on a value that is no str raises AttributeError ("raise").     *)
(***************************************************************************)

\* IdStep looking for the keywords in the description as well as in the id
IdStepOrDescription(finding, keywords) ==
    LET id          == Get(finding, "id", Str(""))
        description == Get(finding, "description", Str(""))
    IN  IF ~IsStr(id) THEN "raise"
        ELSE LET violation_id == lower(id.val)
                 lowered      == IF IsStr(description) THEN lower(description.val) ELSE ""
             IN  IF AnyIn(keywords, violation_id) \/ AnyIn(keywords, lowered)
                 THEN "hit" ELSE "miss"

\* violation.get("id", "").lower(), then any(keyword in violation_id ...)
IdStep(finding, keywords) ==
    LET id == Get(finding, "id", Str(""))
    IN  IF ~IsStr(id) THEN "raise"
        ELSE LET violation_id == lower(id.val)
             IN  IF AnyIn(keywords, violation_id) THEN "hit" ELSE "miss"

\* IdDescriptionStep matching the id as it is written, not lowered
IdDescriptionStepCaseSensitive(finding, keywords) ==
    LET id          == Get(finding, "id", Str(""))
        description == Get(finding, "description", Str(""))
    IN  IF ~IsStr(id) \/ ~IsStr(description) THEN "raise"
        ELSE IF \E k \in keywords :
                   Contains(id.val, k) \/ Contains(lower(description.val), k)
             THEN "hit" ELSE "miss"

\* id and description lowered, then
\* any(keyword in violation_id or keyword in description ...)
IdDescriptionStep(finding, keywords) ==
    LET id          == Get(finding, "id", Str(""))
        description == Get(finding, "description", Str(""))
    IN  IF ~IsStr(id) \/ ~IsStr(description) THEN "raise"
        ELSE LET violation_id == lower(id.val)
                 lowered      == lower(description.val)
             IN  IF \E k \in keywords :
                        Contains(violation_id, k) \/ Contains(lowered, k)
                 THEN "hit" ELSE "miss"

\* the f-string appended to issues
Evidence(label, finding) ==
    label \o ": " \o Format(Get(finding, "description", Str("Unknown")))

RECURSIVE IssuesFrom(_, _, _, _)
IssuesFrom(findings, steps, label, i) ==
    IF i > Len(findings) THEN << >>
    ELSE (IF steps[i] = "hit" THEN << Evidence(label, findings[i]) >> ELSE << >>)
         \o IssuesFrom(findings, steps, label, i + 1)

\* one `for ... in findings` loop: the issues it appends, or the exception
Loop(findings, steps, label) ==
    IF \E i \in 1..Len(findings) : steps[i] = "raise"
    THEN [raised |-> TRUE]
    ELSE [raised |-> FALSE, issues |-> IssuesFrom(findings, steps, label, 1)]

\* Result with the advice attached to a passed verdict too
ResultAdviceAlways(issues, advice) ==
    [raised |-> FALSE,
     passed |-> Len(issues) = 0,
     issues |-> issues,
     recommendation |-> Str(advice)]

\* passed = len(issues) == 0; recommendation = None if passed else (...)
Result(issues, advice) ==
    [raised |-> FALSE,
     passed |-> Len(issues) = 0,
     issues |-> issues,
     recommendation |-> IF Len(issues) = 0 THEN None ELSE Str(advice)]

Raised == [raised |-> TRUE]

\* the evaluators that run one loop over axe_results.violations
ViolationsCheck(loop, advice) ==
    IF loop.raised THEN Raised ELSE Result(loop.issues, advice)

(***************************************************************************)
(* The ten evaluators                                                      *)
(***************************************************************************)
_check_meaningful_sequence(axe_results) ==
    LET violations == Loop(axe_results.violations,
            [i \in 1..Len(axe_results.violations) |->
                IdStep(axe_results.violations[i],
                       {"reading-order", "sequence", "tab-order", "focus-order"})],
            "Reading order issue")
        incomplete == Loop(axe_results.incomplete,
            [i \in 1..Len(axe_results.incomplete) |->
                IdStep(axe_results.incomplete[i],
                       {"reading-order", "sequence", "tab-order"})],
            "Potential reading order issue")
    IN  IF violations.raised \/ incomplete.raised THEN Raised
        ELSE Result(violations.issues \o incomplete.issues,
                "Ensure that the DOM order matches the visual reading order. "
             \o "Use semantic HTML and proper heading hierarchy (h1-h6). "
             \o "Test with screen readers to verify logical flow.")

_check_sensory_characteristics(axe_results) ==
    ViolationsCheck(
        Loop(axe_results.violations,
             [i \in 1..Len(axe_results.violations) |->
                 IdDescriptionStep(axe_results.violations[i],
                     {"color", "colour", "shape", "sound", "sensory", "visual-only"})],
             "Sensory characteristic issue"),
           "Do not rely solely on visual cues like color, shape, or position. "
        \o "Add text labels, icons with alt text, or other non-visual indicators. "
        \o "Ensure information is conveyed through multiple means.")

\* UseOfColourStep without the second look at help
UseOfColourStepAnyColour(violation) ==
    IdDescriptionStep(violation, {"color-contrast", "color", "colour", "contrast"})

\* the loop body of _check_use_of_colour: help is read only after a keyword matched
UseOfColourStep(violation) ==
    LET first == IdDescriptionStep(violation,
                     {"color-contrast", "color", "colour", "contrast"})
        help  == Get(violation, "help", Str(""))
    IN  IF first # "hit" THEN first
        ELSE IF ~IsStr(help) THEN "raise"
        ELSE LET help_text == lower(help.val)
             IN  IF Contains(help_text, "color")
                    /\ (Contains(help_text, "only") \/ Contains(help_text, "solely"))
                 THEN "hit" ELSE "miss"

_check_use_of_colour(axe_results) ==
    ViolationsCheck(
        Loop(axe_results.violations,
             [i \in 1..Len(axe_results.violations) |->
                 UseOfColourStep(axe_results.violations[i])],
             "Color-only dependency"),
           "Ensure information is not conveyed by color alone. "
        \o "Add text labels, icons, patterns, or other visual indicators. "
        \o "Use sufficient color contrast (WCAG AA: 4.5:1 for normal text, 3:1 for large text).")

_check_keyboard_accessible(axe_results) ==
    ViolationsCheck(
        Loop(axe_results.violations,
             [i \in 1..Len(axe_results.violations) |->
                 IdDescriptionStep(axe_results.violations[i],
                     {"keyboard", "focus", "tabindex", "interactive", "clickable"})],
             "Keyboard accessibility issue"),
           "Ensure all interactive elements are keyboard accessible. "
        \o "Add proper tabindex values, ensure focus indicators are visible, "
        \o "and test navigation using only Tab, Enter, and arrow keys.")

\* the second loop body of _check_no_keyboard_trap
FocusTrapStep(incomplete) ==
    LET id == Get(incomplete, "id", Str(""))
    IN  IF ~IsStr(id) THEN "raise"
        ELSE LET incomplete_id == lower(id.val)
             IN  IF Contains(incomplete_id, "focus") /\ Contains(incomplete_id, "trap")
                 THEN "hit" ELSE "miss"

_check_no_keyboard_trap(axe_results) ==
    LET violations == Loop(axe_results.violations,
            [i \in 1..Len(axe_results.violations) |->
                IdDescriptionStep(axe_results.violations[i],
                    {"focus-trap", "keyboard-trap", "focus-lock", "modal"})],
            "Keyboard trap detected")
        incomplete == Loop(axe_results.incomplete,
            [i \in 1..Len(axe_results.incomplete) |->
                FocusTrapStep(axe_results.incomplete[i])],
            "Potential keyboard trap")
    IN  IF violations.raised \/ incomplete.raised THEN Raised
        ELSE Result(violations.issues \o incomplete.issues,
                "Ensure users can navigate away from all components using keyboard. "
             \o "In modals, provide an Escape key handler and ensure focus returns to the trigger. "
             \o "Test tab navigation to verify no components trap focus.")

\* the loop body of _check_pointer_cancellation
PointerCancellationStep(violation) ==
    LET first == IdDescriptionStep(violation,
                     {"pointer", "click", "drag", "touch", "mouse"})
        help  == Get(violation, "help", Str(""))
    IN  IF first # "hit" THEN first
        ELSE IF ~IsStr(help) THEN "raise"
        ELSE LET help_text == lower(help.val)
             IN  IF AnyIn({"cancel", "undo", "pointer"}, help_text)
                 THEN "hit" ELSE "miss"

_check_pointer_cancellation(axe_results) ==
    ViolationsCheck(
        Loop(axe_results.violations,
             [i \in 1..Len(axe_results.violations) |->
                 PointerCancellationStep(axe_results.violations[i])],
             "Pointer cancellation issue"),
           "Ensure click and drag actions can be cancelled. "
        \o "For drag operations, allow cancellation by moving outside the drop zone or pressing Escape. "
        \o "For click actions, provide undo functionality where appropriate.")

_check_label_in_name(axe_results) ==
    ViolationsCheck(
        Loop(axe_results.violations,
             [i \in 1..Len(axe_results.violations) |->
                 IdDescriptionStep(axe_results.violations[i],
                     {"label", "name", "accessible-name", "aria-label", "aria-labelledby"})],
             "Label/name mismatch"),
           "Ensure visible labels match accessible names. "
        \o "Use proper label associations (label for, aria-label, aria-labelledby). "
        \o "Test with screen readers to verify labels are announced correctly.")

_check_timing_adjustable(axe_results) ==
    ViolationsCheck(
        Loop(axe_results.violations,
             [i \in 1..Len(axe_results.violations) |->
                 IdDescriptionStep(axe_results.violations[i],
                     {"timeout", "timing", "session", "auto-refresh", "meta-refresh"})],
             "Timing issue"),
           "Allow users to extend or disable time limits. "
        \o "Provide warnings before timeouts expire. "
        \o "Avoid auto-refresh or auto-redirect without user control.")

_check_seizures(axe_results) ==
    ViolationsCheck(
        Loop(axe_results.violations,
             [i \in 1..Len(axe_results.violations) |->
                 IdDescriptionStep(axe_results.violations[i],
                     {"flash", "blink", "flicker", "seizure", "animation"})],
             "Flashing content detected"),
           "Avoid content that flashes more than 3 times per second. "
        \o "Provide controls to pause, stop, or hide animations. "
        \o "Respect user preferences for reduced motion (prefers-reduced-motion).")

\* the loop over passes with has_skip_links assigned by every entry and no break:
\* the last entry decides
SkipLinksLastEntry(passes, i) ==
    IF \E j \in i..Len(passes) : ~IsStr(Get(passes[j], "id", Str("")))
    THEN "raise"
    ELSE IF Len(passes) < i THEN "absent"
    ELSE LET pass_id == lower(Get(passes[Len(passes)], "id", Str("")).val)
         IN  IF Contains(pass_id, "skip") \/ Contains(pass_id, "bypass")
             THEN "found" ELSE "absent"

\* the loop over axe_results.passes from index i on: "found" at the first id
\* holding "skip" or "bypass" (break), "raise" at an id that is no str before it
RECURSIVE SkipLinksFrom(_, _)
SkipLinksFrom(passes, i) ==
    IF i > Len(passes) THEN "absent"
    ELSE LET id == Get(passes[i], "id", Str(""))
         IN  IF ~IsStr(id) THEN "raise"
             ELSE LET pass_id == lower(id.val)
                  IN  IF Contains(pass_id, "skip") \/ Contains(pass_id, "bypass")
                      THEN "found"
                      ELSE SkipLinksFrom(passes, i + 1)

\* _check_bypass_blocks adding its own issue whenever no skip link passed, also
\* next to the issues of matching violations
_check_bypass_blocks_always_adds(axe_results) ==
    LET violations == Loop(axe_results.violations,
            [i \in 1..Len(axe_results.violations) |->
                IdDescriptionStep(axe_results.violations[i],
                    {"bypass", "skip", "landmark", "region", "main", "navigation"})],
            "Bypass block issue")
        skip_links == SkipLinksFrom(axe_results.passes, 1)
    IN  IF violations.raised \/ skip_links = "raise" THEN Raised
        ELSE Result(
                IF skip_links # "found"
                THEN Append(violations.issues, "No skip links or bypass mechanisms detected")
                ELSE violations.issues,
                "Provide skip links to bypass repetitive content like navigation menus. "
             \o "Use ARIA landmarks (main, navigation, banner, contentinfo). "
             \o "Ensure skip links are visible on focus and work with keyboard navigation.")

_check_bypass_blocks(axe_results) ==
    LET violations == Loop(axe_results.violations,
            [i \in 1..Len(axe_results.violations) |->
                IdDescriptionStep(axe_results.violations[i],
                    {"bypass", "skip", "landmark", "region", "main", "navigation"})],
            "Bypass block issue")
        skip_links     == SkipLinksFrom(axe_results.passes, 1)
        has_skip_links == skip_links = "found"
    IN  IF violations.raised \/ skip_links = "raise" THEN Raised
        ELSE Result(
                IF ~has_skip_links /\ Len(violations.issues) = 0
                THEN Append(violations.issues, "No skip links or bypass mechanisms detected")
                ELSE violations.issues,
                "Provide skip links to bypass repetitive content like navigation menus. "
             \o "Use ARIA landmarks (main, navigation, banner, contentinfo). "
             \o "Ensure skip links are visible on focus and work with keyboard navigation.")

(***************************************************************************)
(* ComplianceChecker.check_all                                             *)
(***************************************************************************)
\* CheckMethods with one method spelled unlike its catalog key
CheckMethodsMisspelled ==
    {"meaningful_sequence", "sensory_characteristics", "use_of_color",
     "keyboard_accessible", "no_keyboard_trap", "pointer_cancellation",
     "label_in_name", "timing_adjustable", "seizures", "bypass_blocks"}

\* the methods getattr(self, f"_check_{check_id}", None) finds
CheckMethods ==
    {"meaningful_sequence", "sensory_characteristics", "use_of_colour",
     "keyboard_accessible", "no_keyboard_trap", "pointer_cancellation",
     "label_in_name", "timing_adjustable", "seizures", "bypass_blocks"}

\* check_method(axe_results)
check_method(check_id, axe_results) ==
    CASE check_id = "meaningful_sequence"     -> _check_meaningful_sequence(axe_results)
      [] check_id = "sensory_characteristics" -> _check_sensory_characteristics(axe_results)
      [] check_id = "use_of_colour"           -> _check_use_of_colour(axe_results)
      [] check_id = "keyboard_accessible"     -> _check_keyboard_accessible(axe_results)
      [] check_id = "no_keyboard_trap"        -> _check_no_keyboard_trap(axe_results)
      [] check_id = "pointer_cancellation"    -> _check_pointer_cancellation(axe_results)
      [] check_id = "label_in_name"           -> _check_label_in_name(axe_results)
      [] check_id = "timing_adjustable"       -> _check_timing_adjustable(axe_results)
      [] check_id = "seizures"                -> _check_seizures(axe_results)
      [] check_id = "bypass_blocks"           -> _check_bypass_blocks(axe_results)

\* the loop of check_all from catalog entry i on, results being the list so far;
\* an exception in an evaluator leaves the loop
RECURSIVE CheckAllFrom(_, _, _)
CheckAllFrom(axe_results, i, results) ==
    IF i > Len(COMPLIANCE_CHECKS) THEN [raised |-> FALSE, results |-> results]
    ELSE LET check_id   == COMPLIANCE_CHECKS[i].check_id
             check_info == COMPLIANCE_CHECKS[i]
         IN  IF check_id \notin CheckMethods
             THEN CheckAllFrom(axe_results, i + 1, results)
             ELSE LET result == check_method(check_id, axe_results)
                  IN  IF result.raised THEN Raised
                      ELSE CheckAllFrom(axe_results, i + 1,
                               Append(results,
                                   [check_id       |-> check_id,
                                    check_name     |-> check_info.name,
                                    description    |-> check_info.description,
                                    passed         |-> result.passed,
                                    issues         |-> result.issues,
                                    recommendation |-> result.recommendation]))

\* check_all with `results` kept on the checker, which all requests share, and
\* never emptied: the list starts as the last call left it
check_all_shared_list(axe_results) ==
    LET earlier == { q \in DOMAIN compliance_results : Len(compliance_results[q]) > 0 }
        last    == CHOOSE q \in earlier : \A o \in earlier : o <= q
    IN  CheckAllFrom(axe_results, 1,
            IF earlier = {} THEN << >> ELSE compliance_results[last])

check_all(axe_results) == CheckAllFrom(axe_results, 1, << >>)


(***************************************************************************)
(* analyze_compliance: the score and the response                          *)
(***************************************************************************)
\* failed_checks_list without its filter
failed_checks_list_unfiltered(results) == results

\* [check for check in compliance_results if not check["passed"]]
failed_checks_list(results) ==
    SelectSeq(results, LAMBDA check : ~check.passed)

\* sum(1 for check in compliance_results if check["passed"])
passed_checks(results) ==
    Len(SelectSeq(results, LAMBDA check : check.passed))

\* score with the quotient taken by floor division
score_floor_division(passed, total) ==
    IF total > 0 THEN (passed \div total) * 10000 ELSE 0

\* round(passed / total * 100, 2) in hundredths of a point, to the nearest
\* hundredth (no quotient of two counts up to ten falls on a tie); 0 when total = 0
score(passed, total) ==
    IF total > 0
    THEN LET scaled == passed * 10000
         IN  (scaled \div total) + (IF 2 * (scaled % total) >= total THEN 1 ELSE 0)
    ELSE 0

\* ComplianceResponse(...), returned with status 200
ComplianceResponse(results, ai_recommendations) ==
    LET total_checks == Len(results)
        passed       == passed_checks(results)
    IN  [status_code        |-> 200,
         score              |-> score(passed, total_checks),
         total_checks       |-> total_checks,
         passed_checks      |-> passed,
         failed_checks      |-> total_checks - passed,
         checks             |-> [i \in 1..Len(results) |->
                                    [check_id       |-> results[i].check_id,
                                     check_name     |-> results[i].check_name,
                                     passed         |-> results[i].passed,
                                     issues         |-> results[i].issues,
                                     recommendation |-> results[i].recommendation]],
         ai_recommendations |-> ai_recommendations]

\* raise HTTPException(status_code=500, ...)
HTTPException == [status_code |-> 500]

(***************************************************************************)
(* AIRecommendationService.get_recommendations after client.post           *)
(***************************************************************************)
\* what client.post may end in: an httpx exception (transport error, timeout)
\* or a response with a status code and a body
HttpOutcomes ==
    { [kind |-> "exception", error |-> "ConnectError"],
      [kind |-> "exception", error |-> "ReadTimeout"],
      [kind |-> "response", status_code |-> 500, json |-> FALSE],
      [kind |-> "response", status_code |-> 200, json |-> FALSE],
      [kind |-> "response", status_code |-> 200, json |-> TRUE,
       data |-> [error |-> "overloaded"]],
      [kind |-> "response", status_code |-> 200, json |-> TRUE,
       data |-> [choices |-> << >>]],
      [kind |-> "response", status_code |-> 200, json |-> TRUE,
       data |-> [choices |-> << [finish_reason |-> "length"] >>]],
      [kind |-> "response", status_code |-> 200, json |-> TRUE,
       data |-> [choices |-> << [message |-> [content |-> None]] >>]],
      [kind |-> "response", status_code |-> 200, json |-> TRUE,
       data |-> [choices |-> << [message |-> [content |-> Str("Add a skip link.")]] >>]] }

Returns(value) == [raised |-> FALSE, value |-> value]

\* the body of `try:` from the post on; Raised stands for an exception inside it
TryPost(post) ==
    IF post.kind = "exception" THEN Raised
    ELSE IF post.status_code = 200
         THEN IF ~post.json THEN Raised
              ELSE IF "choices" \in DOMAIN post.data /\ Len(post.data.choices) > 0
                   THEN IF "message" \in DOMAIN post.data.choices[1]
                           /\ "content" \in DOMAIN post.data.choices[1].message
                        THEN Returns(post.data.choices[1].message.content)
                        ELSE Raised
                   ELSE Returns(None)
         ELSE Returns(None)

\* get_recommendations handing the error message back in place of None
get_recommendations_error_text(outcome) ==
    IF TryPost(outcome).raised
    THEN Returns(Str("Error getting AI recommendations"))
    ELSE TryPost(outcome)

\* get_recommendations with the post outside any try: the exception reaches the caller
get_recommendations_unguarded(outcome) == TryPost(outcome)

\* try: ... except Exception as e: return None
get_recommendations(outcome) ==
    IF TryPost(outcome).raised THEN Returns(None) ELSE TryPost(outcome)

\* the handler's own try/except around the call
await_recommendations(outcome) ==
    IF outcome.raised THEN None ELSE outcome.value


(***************************************************************************)
(* Scan records the clients send                                           *)
(***************************************************************************)
\* most Findings a generated scan record holds, over its three lists
MaxFindings == 2

\* most requests the server is sent in one run
MaxRequests == 2

KeyboardTrap ==
    [id |-> Str("Keyboard-Trap-Modal"), description |-> Str("Focus is trapped"),
     help |-> Str("Add an exit"), impact |-> Str("serious")]

ContrastRatio ==
    [id |-> Str("color-contrast"), description |-> Str("Low contrast"),
     help |-> Str("insufficient contrast ratio")]

ColourOnly ==
    [id |-> Str("color-contrast"), description |-> Str("Low contrast"),
     help |-> Str("color is the only indicator")]

LinkColour ==
    [id |-> Str("link-in-text-block"), description |-> Str("Links look like text"),
     help |-> Str("Color is solely used")]

BypassViolation ==
    [id |-> Str("bypass"), description |-> Str("No skip link"),
     help |-> Str("Add a skip link")]

FocusOrder == [id |-> Str("focus-order-semantics")]

TouchTarget ==
    [id |-> Str("target-size"), description |-> Str("Touch target is small"),
     help |-> Str("Pointer input must cancel")]

Refresh == [id |-> Str("meta-refresh"), description |-> Str("Blinking label")]

NullHelp ==
    [id |-> Str("target-size"), description |-> Str("Touch target is small"),
     help |-> None]

NullId == [id |-> None, description |-> Str("No rule id")]

\* a sequence keyword in the description and none in the id
DomOrder == [id |-> Str("dom-order"), description |-> Str("Visual sequence differs")]

ViolationPool ==
    {KeyboardTrap, ContrastRatio, ColourOnly, LinkColour, BypassViolation,
     FocusOrder, TouchTarget, Refresh, NullHelp, NullId, DomOrder}

TabOrder == [id |-> Str("Tab-Order"), description |-> Str("Check the tab order")]

FocusTrapCheck == [id |-> Str("focus-trap-check"), help |-> Str("Review by hand")]

NullDescription == [id |-> Str("sequence"), description |-> None]

IncompletePool == {TabOrder, FocusTrapCheck, NullDescription, DomOrder, FocusOrder}

SkipLink == [id |-> Str("skip-link-present"), description |-> Str("Skip link found")]

HtmlLang == [id |-> Str("html-has-lang")]

NoFields == << >>

PassPool == {SkipLink, HtmlLang, NoFields}

\* the lists of exactly n Findings of a pool
Lists(pool, n) == [1..n -> pool]

\* how many violations, incomplete and passes a scan record holds
Shapes ==
    { n \in (0..MaxFindings) \X (0..MaxFindings) \X (0..MaxFindings) :
        n[1] + n[2] + n[3] <= MaxFindings }

\* AxeCoreResult with at most MaxFindings Findings (url plays no part in a check)
ScanRecords ==
    UNION { { [violations |-> v, incomplete |-> i, passes |-> p] :
                v \in Lists(ViolationPool, n[1]),
                i \in Lists(IncompletePool, n[2]),
                p \in Lists(PassPool, n[3]) } : n \in Shapes }

\* the scan records sent to the running server
Empty == [violations |-> << >>, incomplete |-> << >>, passes |-> << >>]

RequestPool ==
    { Empty,
      [violations |-> << >>, incomplete |-> << >>, passes |-> << SkipLink >>],
      [violations |-> << KeyboardTrap >>, incomplete |-> << TabOrder >>,
       passes |-> << SkipLink >>],
      [violations |-> << ColourOnly, Refresh >>, incomplete |-> << FocusTrapCheck >>,
       passes |-> << HtmlLang >>],
      [violations |-> << FocusOrder, NullHelp >>, incomplete |-> << >>,
       passes |-> << >>] }

(***************************************************************************)
(* The server: MaxRequests requests to POST /analyze, each a coroutine     *)
(* that runs to its one await (client.post) and from there to its response *)
(***************************************************************************)
server_vars ==
    << api_key, pc, received, compliance_results, calls, posts, http, returned,
       response >>

ev_vars == << ev_pc, ev_scan, ev_result, ev_before >>

vars == << api_key, pc, received, compliance_results, calls, posts, http, returned,
           response, ev_pc, ev_scan, ev_result, ev_before >>

Requests == 1..MaxRequests

Nothing == [type |-> "nothing"]

ServerInit ==
    /\ api_key \in {"", "lc-key"}
    /\ pc = [r \in Requests |-> "idle"]
    /\ received = [r \in Requests |-> Nothing]
    /\ compliance_results = [r \in Requests |-> << >>]
    /\ calls = [r \in Requests |-> 0]
    /\ posts = [r \in Requests |-> 0]
    /\ http = [r \in Requests |-> Nothing]
    /\ returned = [r \in Requests |-> Nothing]
    /\ response = [r \in Requests |-> Nothing]

\* analyze_compliance from its entry to client.post, or to its end when it never
\* reaches the post.  Nothing in between suspends the coroutine: check_all runs all
\* its evaluators, then the score is computed, then get_recommendations is entered
\* (it returns None at once without a key; _build_prompt only formats text).
Analyze(r, scan) ==
    /\ pc[r] = "idle"
    /\ \A q \in Requests : q < r => pc[q] # "idle"   \* numbered as they arrive
    /\ received' = [received EXCEPT ![r] = scan]
    /\ LET checked == check_all(scan)
       IN  IF checked.raised
           THEN /\ response' = [response EXCEPT ![r] = HTTPException]
                /\ pc' = [pc EXCEPT ![r] = "done"]
                /\ UNCHANGED << compliance_results, calls, posts, returned >>
           ELSE /\ compliance_results' = [compliance_results EXCEPT ![r] = checked.results]
                /\ IF Len(failed_checks_list(checked.results)) = 0
                   THEN /\ response' = [response EXCEPT ![r] =
                                ComplianceResponse(checked.results, None)]
                        /\ pc' = [pc EXCEPT ![r] = "done"]
                        /\ UNCHANGED << calls, posts, returned >>
                   ELSE /\ calls' = [calls EXCEPT ![r] = @ + 1]
                        /\ IF api_key = ""
                           THEN /\ returned' = [returned EXCEPT ![r] = Returns(None)]
                                /\ response' = [response EXCEPT ![r] =
                                        ComplianceResponse(checked.results,
                                            await_recommendations(Returns(None)))]
                                /\ pc' = [pc EXCEPT ![r] = "done"]
                                /\ UNCHANGED posts
                           ELSE /\ posts' = [posts EXCEPT ![r] = @ + 1]
                                /\ pc' = [pc EXCEPT ![r] = "awaiting"]
                                /\ UNCHANGED << response, returned >>
    /\ UNCHANGED << api_key, http, ev_vars >>

\* client.post ends, get_recommendations returns and the handler responds
Respond(r, outcome) ==
    /\ pc[r] = "awaiting"
    /\ http' = [http EXCEPT ![r] = outcome]
    /\ returned' = [returned EXCEPT ![r] = get_recommendations(outcome)]
    /\ response' = [response EXCEPT ![r] =
            ComplianceResponse(compliance_results[r],
                await_recommendations(get_recommendations(outcome)))]
    /\ pc' = [pc EXCEPT ![r] = "done"]
    /\ UNCHANGED << api_key, received, compliance_results, calls, posts, ev_vars >>

EvIdle ==
    /\ ev_pc = "off"
    /\ ev_scan = Nothing
    /\ ev_result = Nothing
    /\ ev_before = Nothing

Next ==
    \/ \E r \in Requests, scan \in RequestPool : Analyze(r, scan)
    \/ \E r \in Requests, outcome \in HttpOutcomes : Respond(r, outcome)

Init == ServerInit /\ EvIdle

Spec == Init /\ [][Next]_vars

(***************************************************************************)
(* check_all as a function of the scan record: it is applied to every      *)
(* generated record, and again to the record with one field's letter case  *)
(* changed, or with its absent fields written out as empty strings.        *)
(***************************************************************************)
Lists3 == {"violations", "incomplete", "passes"}

\* the scan record with field `key` of Finding i of list `name` set to value
WithField(scan, name, i, key, value) ==
    [scan EXCEPT ![name] =
        [@ EXCEPT ![i] =
            [k \in DOMAIN @ \cup {key} |-> IF k = key THEN value ELSE @[k]]]]

\* every absent id, description and help of every Finding written as ""
WithDefaults(scan) ==
    [name \in Lists3 |->
        [i \in 1..Len(scan[name]) |->
            [k \in DOMAIN scan[name][i] \cup {"id", "description", "help"} |->
                Get(scan[name][i], k, Str(""))]]]

EvInit ==
    /\ ev_pc = "input"
    /\ ev_scan \in ScanRecords
    /\ ev_result = Nothing
    /\ ev_before = Nothing

Evaluate ==
    /\ ev_pc = "input"
    /\ ev_result' = check_all(ev_scan)
    /\ ev_pc' = "evaluated"
    /\ UNCHANGED << ev_scan, ev_before, server_vars >>

\* the id or the help of one Finding in upper or in lower case, evaluated again
Recase(name, i, key, to_upper) ==
    /\ ev_pc = "evaluated"
    /\ i \in 1..Len(ev_scan[name])
    /\ key \in DOMAIN ev_scan[name][i]
    /\ IsStr(ev_scan[name][i][key])
    /\ LET old     == ev_scan[name][i][key].val
           new     == IF to_upper THEN upper(old) ELSE lower(old)
           changed == WithField(ev_scan, name, i, key, Str(new))
       IN  /\ new # old
           /\ ev_before' = [scan |-> ev_scan, result |-> ev_result]
           /\ ev_scan' = changed
           /\ ev_result' = check_all(changed)
    /\ ev_pc' = "recased"
    /\ UNCHANGED server_vars

\* the absent fields written out as empty strings, evaluated again
FillDefaults ==
    /\ ev_pc = "evaluated"
    /\ WithDefaults(ev_scan) # ev_scan
    /\ ev_before' = [scan |-> ev_scan, result |-> ev_result]
    /\ ev_scan' = WithDefaults(ev_scan)
    /\ ev_result' = check_all(WithDefaults(ev_scan))
    /\ ev_pc' = "filled"
    /\ UNCHANGED server_vars

\* the Findings a list is drawn from
Pool(name) ==
    CASE name = "violations" -> ViolationPool
      [] name = "incomplete" -> IncompletePool
      [] name = "passes"     -> PassPool

\* the number of Findings of a scan record, over its three lists
Findings(scan) == Len(scan.violations) + Len(scan.incomplete) + Len(scan.passes)

\* one more Finding at the end of one list, evaluated again
AppendFinding(name, finding) ==
    /\ ev_pc = "evaluated"
    /\ Findings(ev_scan) < MaxFindings
    /\ ev_before' = [scan |-> ev_scan, result |-> ev_result]
    /\ ev_scan' = [ev_scan EXCEPT ![name] = Append(@, finding)]
    /\ ev_result' = check_all([ev_scan EXCEPT ![name] = Append(@, finding)])
    /\ ev_pc' = "appended"
    /\ UNCHANGED server_vars

NextEval ==
    \/ Evaluate
    \/ \E name \in Lists3, i \in 1..MaxFindings, key \in {"id", "help"},
          to_upper \in BOOLEAN : Recase(name, i, key, to_upper)
    \/ FillDefaults
    \/ \E name \in Lists3 : \E finding \in Pool(name) : AppendFinding(name, finding)

InitEval == ServerInit /\ api_key = "" /\ EvInit

SpecEval == InitEval /\ [][NextEval]_vars

(***************************************************************************)
(* Properties of check_all, under SpecEval                                 *)
(***************************************************************************)
\* check_all has returned a list for the current record
Evaluated == ev_pc # "input" /\ ~ev_result.raised

\* the verdict of rule check_id in a list check_all returned
Verdict(results, check_id) ==
    results[CHOOSE i \in 1..Len(results) : results[i].check_id = check_id]

\* the string a field is matched as: "" when absent (and for a value that is no
\* str, which no evaluator gets past)
Matched(finding, key) ==
    LET value == Get(finding, key, Str(""))
    IN  IF IsStr(value) THEN lower(value.val) ELSE ""

\* C1: whatever the violations, incomplete and passes of a scan record hold, the
\* checks list has exactly 10 entries, in the catalog order meaningful_sequence,
\* sensory_characteristics, use_of_colour, keyboard_accessible, no_keyboard_trap,
\* pointer_cancellation, label_in_name, timing_adjustable, seizures, bypass_blocks,
\* each check_id once.
C1_TenChecksInCatalogOrder ==
    Evaluated =>
        [i \in 1..Len(ev_result.results) |-> ev_result.results[i].check_id]
            = << "meaningful_sequence", "sensory_characteristics", "use_of_colour",
                 "keyboard_accessible", "no_keyboard_trap", "pointer_cancellation",
                 "label_in_name", "timing_adjustable", "seizures", "bypass_blocks" >>

\* C1 witness: a record with violations and passes has been evaluated and some of
\* its verdicts failed while others passed
C1_Witness ==
    /\ Evaluated
    /\ Len(ev_scan.violations) > 0 /\ Len(ev_scan.passes) > 0
    /\ \E i, j \in 1..Len(ev_result.results) :
          ev_result.results[i].passed /\ ~ev_result.results[j].passed

\* C2: for every scan record and every rule other than bypass_blocks, passed holds
\* exactly when issues is empty, and recommendation is None exactly when passed.
C2_PassedIffNoIssues ==
    Evaluated =>
        \A i \in 1..Len(ev_result.results) :
            LET verdict == ev_result.results[i]
            IN  verdict.check_id # "bypass_blocks" =>
                    /\ verdict.passed <=> (verdict.issues = << >>)
                    /\ (verdict.recommendation = None) <=> verdict.passed

\* C2 witness: a rule other than bypass_blocks failed with evidence and advice while
\* another one passed with neither
C2_Witness ==
    /\ Evaluated
    /\ \E i, j \in 1..Len(ev_result.results) :
          /\ ev_result.results[i].check_id # "bypass_blocks"
          /\ ev_result.results[j].check_id # "bypass_blocks"
          /\ ~ev_result.results[i].passed
          /\ Len(ev_result.results[i].issues) > 0
          /\ ev_result.results[i].recommendation # None
          /\ ev_result.results[j].passed
          /\ ev_result.results[j].recommendation = None

\* a violation whose id or description holds a Bypass Blocks keyword
BypassViolations(scan) ==
    { i \in 1..Len(scan.violations) :
        \E k \in {"bypass", "skip", "landmark", "region", "main", "navigation"} :
            \/ Contains(Matched(scan.violations[i], "id"), k)
            \/ Contains(Matched(scan.violations[i], "description"), k) }

\* a passes entry whose id holds "skip" or "bypass"
SkipPasses(scan) ==
    { i \in 1..Len(scan.passes) :
        \/ Contains(Matched(scan.passes[i], "id"), "skip")
        \/ Contains(Matched(scan.passes[i], "id"), "bypass") }

\* C6: Bypass Blocks.  When no violation's id or description holds one of bypass,
\* skip, landmark, region, main, navigation, the verdict passes with empty issues if
\* some passes entry has an id holding "skip" or "bypass", and otherwise fails with
\* the single issue "No skip links or bypass mechanisms detected" (so with empty
\* violations and empty passes).  When a violation matches, the verdict fails
\* whatever passes holds and the synthesized issue is not added.
C6_BypassBlocks ==
    Evaluated =>
        LET verdict     == Verdict(ev_result.results, "bypass_blocks")
            synthesized == "No skip links or bypass mechanisms detected"
        IN  /\ (BypassViolations(ev_scan) = {} /\ SkipPasses(ev_scan) # {})
                   => verdict.passed /\ verdict.issues = << >>
            /\ (BypassViolations(ev_scan) = {} /\ SkipPasses(ev_scan) = {})
                   => ~verdict.passed /\ verdict.issues = << synthesized >>
            /\ (ev_scan.violations = << >> /\ ev_scan.passes = << >>)
                   => ~verdict.passed /\ verdict.issues = << synthesized >>
            /\ BypassViolations(ev_scan) # {}
                   => /\ ~verdict.passed
                      /\ Len(verdict.issues) = Cardinality(BypassViolations(ev_scan))
                      /\ \A j \in 1..Len(verdict.issues) : verdict.issues[j] # synthesized

\* C6 witness: a skip-link pass next to a matching violation (the rule fails all the
\* same, on the violation alone)
C6_Witness ==
    /\ Evaluated
    /\ BypassViolations(ev_scan) # {}
    /\ SkipPasses(ev_scan) # {}
    /\ Verdict(ev_result.results, "bypass_blocks").issues
           = << "Bypass block issue: No skip link" >>

\* a violation the Use of Colour rule is to count
ColourOnlyViolations(scan) ==
    { i \in 1..Len(scan.violations) :
        /\ \E k \in {"color-contrast", "color", "colour", "contrast"} :
              \/ Contains(Matched(scan.violations[i], "id"), k)
              \/ Contains(Matched(scan.violations[i], "description"), k)
        /\ Contains(Matched(scan.violations[i], "help"), "color")
        /\ \/ Contains(Matched(scan.violations[i], "help"), "only")
           \/ Contains(Matched(scan.violations[i], "help"), "solely") }

\* C7: Use of Colour.  A violation produces evidence exactly when its id or
\* description holds one of color-contrast, color, colour, contrast and its help
\* holds "color" together with "only" or "solely": id "color-contrast" with help
\* "insufficient contrast ratio" produces none (the rule passes), with help "color
\* is the only indicator" it produces evidence (the rule fails).
C7_UseOfColour ==
    Evaluated =>
        LET verdict == Verdict(ev_result.results, "use_of_colour")
        IN  /\ Len(verdict.issues) = Cardinality(ColourOnlyViolations(ev_scan))
            /\ verdict.passed <=> (ColourOnlyViolations(ev_scan) = {})
            /\ ev_scan.violations = << ContrastRatio >> => verdict.passed
            /\ ev_scan.violations = << ColourOnly >>
                   => /\ ~verdict.passed
                      /\ verdict.issues = << "Color-only dependency: Low contrast" >>

\* C7 witness: of two colour violations with the same id only the one whose help
\* says "only" became evidence, and a violation whose help alone speaks of colour
\* did not
C7_Witness ==
    /\ ev_pc = "evaluated"
    /\ ~ev_result.raised
    /\ \/ ev_scan.violations = << ContrastRatio, ColourOnly >>
       \/ ev_scan.violations = << LinkColour, ColourOnly >>
    /\ Verdict(ev_result.results, "use_of_colour").issues
           = << "Color-only dependency: Low contrast" >>


\* C8: keyword matching is case-insensitive.  Changing the letter case of a
\* Finding's id ("Keyboard-Trap-Modal" or "keyboard-trap-modal") or of its help text
\* leaves every verdict's passed flag, issues list and recommendation as they were.
C8_CaseInsensitive ==
    ev_pc = "recased" =>
        /\ ev_result.raised = ev_before.result.raised
        /\ ~ev_result.raised =>
              /\ Len(ev_result.results) = Len(ev_before.result.results)
              /\ \A i \in 1..Len(ev_result.results) :
                    /\ ev_result.results[i].passed = ev_before.result.results[i].passed
                    /\ ev_result.results[i].issues = ev_before.result.results[i].issues
                    /\ ev_result.results[i].recommendation
                           = ev_before.result.results[i].recommendation

\* C8 witness: the id "Keyboard-Trap-Modal" was rewritten "keyboard-trap-modal" and
\* the keyboard trap is evidence after the change as before it
C8_Witness ==
    /\ ev_pc = "recased"
    /\ ev_before.scan.violations = << KeyboardTrap >>
    /\ ev_scan.violations[1].id = Str("keyboard-trap-modal")
    /\ Verdict(ev_before.result.results, "no_keyboard_trap").issues
           = << "Keyboard trap detected: Focus is trapped" >>
    /\ Verdict(ev_result.results, "no_keyboard_trap").issues
           = << "Keyboard trap detected: Focus is trapped" >>

\* every field a Finding of the record has is a str
AllStr(scan) ==
    \A name \in Lists3 : \A i \in 1..Len(scan[name]) :
        \A k \in DOMAIN scan[name][i] : IsStr(scan[name][i][k])

\* C10: a Finding that lacks fields is never fatal.  Whatever subset of id,
\* description, help, impact the Findings lack, the evaluation ends without an
\* internal failure and with all ten verdicts; an absent field is matched as the
\* empty string (the verdicts are those of the record with "" written in its place)
\* and an absent description reads "Unknown" in the evidence.
C10_AbsentFieldsNotFatal ==
    /\ (ev_pc # "input" /\ AllStr(ev_scan)) =>
          ~ev_result.raised /\ Len(ev_result.results) = 10
    /\ (ev_pc = "filled" /\ AllStr(ev_before.scan)) =>
          \A i \in 1..10 :
              LET absent == ev_before.result.results[i]
                  empty  == ev_result.results[i]
              IN  /\ absent.passed = empty.passed
                  /\ absent.recommendation = empty.recommendation
                  /\ Len(absent.issues) = Len(empty.issues)
                  /\ \A j \in 1..Len(absent.issues) :
                        \/ absent.issues[j] = empty.issues[j]
                        \/ absent.issues[j] = empty.issues[j] \o "Unknown"
    /\ (ev_pc = "evaluated" /\ ev_scan.violations = << FocusOrder >>
                             /\ ev_scan.incomplete = << >>) =>
          Verdict(ev_result.results, "meaningful_sequence").issues
              = << "Reading order issue: Unknown" >>

\* C10 witness: a violation with nothing but an id and a pass with no field at all
\* were evaluated, and the violation is cited as "Unknown"
C10_Witness ==
    /\ ev_pc = "filled"
    /\ ev_before.scan.violations = << FocusOrder >>
    /\ ev_before.scan.passes = << NoFields >>
    /\ ~ev_before.result.raised
    /\ Verdict(ev_before.result.results, "keyboard_accessible").issues
           = << "Keyboard accessibility issue: Unknown" >>
    /\ Verdict(ev_result.results, "keyboard_accessible").issues
           = << "Keyboard accessibility issue: " >>

(***************************************************************************)
(* Properties of the /analyze handler, under Spec                          *)
(***************************************************************************)
\* request r has been answered with a ComplianceResponse
Reported(r) == pc[r] = "done" /\ response[r].status_code = 200

\* the recommendation service got an answer it could return: a 200 response whose
\* first choice carries a message with a str content
Answered(r) ==
    /\ http[r] # Nothing
    /\ http[r].kind = "response"
    /\ http[r].status_code = 200
    /\ http[r].json
    /\ "choices" \in DOMAIN http[r].data
    /\ Len(http[r].data.choices) > 0
    /\ "message" \in DOMAIN http[r].data.choices[1]
    /\ IsStr(http[r].data.choices[1].message.content)

\* C3: the report has total_checks = 10 and passed_checks + failed_checks = 10,
\* passed_checks counts the verdicts that passed, and score is
\* round(passed_checks / 10 * 100, 2) (here in hundredths), so within [0, 100].
C3_Score ==
    \A r \in Requests :
        Reported(r) =>
            /\ response[r].total_checks = 10
            /\ response[r].passed_checks + response[r].failed_checks = 10
            /\ response[r].passed_checks
                   = Cardinality({ i \in 1..Len(response[r].checks) :
                                     response[r].checks[i].passed })
            /\ response[r].score = (response[r].passed_checks * 100 * 100) \div 10
            /\ response[r].score >= 0
            /\ response[r].score <= 100 * 100

\* C3 witness: a report with 7 of 10 verdicts passed and score 70.00
C3_Witness ==
    \E r \in Requests :
        /\ Reported(r)
        /\ response[r].passed_checks = 7
        /\ response[r].failed_checks = 3
        /\ response[r].score = 7000

NonEmptyChoices(r) ==
    /\ http[r] # Nothing
    /\ http[r].kind = "response"
    /\ http[r].status_code = 200
    /\ http[r].json
    /\ "choices" \in DOMAIN http[r].data
    /\ Len(http[r].data.choices) > 0

Holding(findings, key, keywords) ==
    { i \in 1..Len(findings) :
        \E k \in keywords : Contains(Matched(findings[i], key), k) }

\* the j-th Finding, in list order, of those whose positions are in `chosen`
Nth(findings, chosen, j) ==
    findings[CHOOSE i \in chosen : Cardinality({ x \in chosen : x < i }) = j - 1]

\* the issues of Meaningful Sequence are one evidence string per violation in
\* `violations`, in scan order, then one per incomplete Finding in `incomplete`
SequenceIssues(issues, violations, incomplete) ==
    /\ Len(issues) = Cardinality(violations) + Cardinality(incomplete)
    /\ \A j \in 1..Len(issues) :
          issues[j] =
              IF j <= Cardinality(violations)
              THEN "Reading order issue: "
                   \o Format(Get(Nth(ev_scan.violations, violations, j),
                                 "description", Str("Unknown")))
              ELSE "Potential reading order issue: "
                   \o Format(Get(Nth(ev_scan.incomplete, incomplete,
                                     j - Cardinality(violations)),
                                 "description", Str("Unknown")))

\* C12 as stated: Meaningful Sequence matches its keywords against the id or the
\* description: every violation whose id or description holds reading-order,
\* sequence, tab-order or focus-order and every incomplete Finding whose id or
\* description holds reading-order, sequence or tab-order appends one evidence
\* string, and the rule passes exactly when there is no such Finding.
C12_IdOrDescription ==
    Evaluated =>
        LET verdict    == Verdict(ev_result.results, "meaningful_sequence")
            full       == {"reading-order", "sequence", "tab-order", "focus-order"}
            reduced    == {"reading-order", "sequence", "tab-order"}
            violations == Holding(ev_scan.violations, "id", full)
                              \cup Holding(ev_scan.violations, "description", full)
            incomplete == Holding(ev_scan.incomplete, "id", reduced)
                              \cup Holding(ev_scan.incomplete, "description", reduced)
        IN  /\ SequenceIssues(verdict.issues, violations, incomplete)
            /\ verdict.passed <=> (violations = {} /\ incomplete = {})

\* C12 amended: Meaningful Sequence matches its keywords against the id alone.
\* Every violation whose id holds reading-order, sequence, tab-order or focus-order
\* and every incomplete Finding whose id holds reading-order, sequence or tab-order
\* (no focus-order) appends one evidence string citing its description, violations
\* first then incomplete, in scan order; the rule passes exactly when no Finding's
\* id matches.  A keyword in the description alone produces no evidence.
C12_MeaningfulSequenceById ==
    Evaluated =>
        LET verdict    == Verdict(ev_result.results, "meaningful_sequence")
            full       == {"reading-order", "sequence", "tab-order", "focus-order"}
            reduced    == {"reading-order", "sequence", "tab-order"}
            violations == Holding(ev_scan.violations, "id", full)
            incomplete == Holding(ev_scan.incomplete, "id", reduced)
        IN  /\ SequenceIssues(verdict.issues, violations, incomplete)
            /\ verdict.passed <=> (violations = {} /\ incomplete = {})
            /\ (ev_scan.violations = << DomOrder >> /\ ev_scan.incomplete = << >>)
                   => verdict.passed
            /\ (ev_scan.violations = << >> /\ ev_scan.incomplete = << FocusOrder >>)
                   => verdict.passed

\* C12 witness: a violation with focus-order in its id and an incomplete Finding
\* with tab-order in its id gave two evidence strings, the violation's first
C12_Witness ==
    /\ Evaluated
    /\ ev_scan.violations = << FocusOrder >>
    /\ ev_scan.incomplete = << TabOrder >>
    /\ Verdict(ev_result.results, "meaningful_sequence").issues
           = << "Reading order issue: Unknown",
                "Potential reading order issue: Check the tab order" >>

(***************************************************************************)
(* Monotonicity of the verdicts, under SpecEval                            *)
(***************************************************************************)
\* a Finding was appended to list `name` and check_all returned a list both for
\* the record before and for the record after
Appended(name) ==
    /\ ev_pc = "appended"
    /\ Len(ev_scan[name]) = Len(ev_before.scan[name]) + 1
    /\ ~ev_before.result.raised
    /\ ~ev_result.raised

\* C13: appending a Finding to violations or to incomplete turns no failed verdict
\* into a passed one, so passed_checks and score do not increase; appending a
\* Finding to passes turns no passed verdict into a failed one, and the only verdict
\* it can change is bypass_blocks, from failed to passed.
C13_Monotone ==
    /\ (Appended("violations") \/ Appended("incomplete")) =>
          LET before == ev_before.result.results
              after  == ev_result.results
          IN  /\ \A i \in 1..Len(before) : ~before[i].passed => ~after[i].passed
              /\ passed_checks(after) <= passed_checks(before)
              /\ score(passed_checks(after), Len(after))
                     <= score(passed_checks(before), Len(before))
    /\ Appended("passes") =>
          LET before == ev_before.result.results
              after  == ev_result.results
          IN  /\ \A i \in 1..Len(before) : before[i].passed => after[i].passed
              /\ \A i \in 1..Len(before) :
                    after[i] # before[i] =>
                        /\ after[i].check_id = "bypass_blocks"
                        /\ ~before[i].passed
                        /\ after[i].passed

\* C13 witness: a record whose ten rules passed on a skip-link pass lost verdicts to
\* an appended violation, and its score went down
C13_Witness ==
    /\ Appended("violations")
    /\ ev_before.scan.passes = << SkipLink >>
    /\ passed_checks(ev_before.result.results) = 10
    /\ passed_checks(ev_result.results) < 10
    /\ score(passed_checks(ev_result.results), 10) < 100 * 100

=============================================================================
